---- MODULE Spec2Model ----
(***************************************************************************)
(* Model of StockAnalysisSystem (src/stock_prediction_.py): data           *)
(* collection, the RSI column of the technical indicators, and the LSTM    *)
(* forecast pipeline (scaling, windowing, chronological split, historical  *)
(* evaluation, autoregressive rollout, storing of the result), driven by   *)
(* the call sequence of the __main__ block or by calls in any order.       *)
(*                                                                         *)
(* Numbers.  Prices are integers.  A scaled value is held by its numerator *)
(* over the denominator scaler.den (the data range, or 1 when the range is *)
(* zero, as sklearn's MinMaxScaler does); the regressor's output is a      *)
(* numerator over the same denominator.  Timestamps are hours since the    *)
(* first bar.  An RSI value is NaN or a fraction num/den.                  *)
(***************************************************************************)
EXTENDS Integers, Sequences, FiniteSets, TLC

VARIABLES
    symbols,              \* the symbol list the caller works through
    source,               \* what the data provider returns for each symbol
    prediction_days,      \* the horizon handed to train_predict_lstm
    interval,             \* the sampling interval handed to collect_stock_data
    stock_data,           \* self.stock_data
    market_data,          \* self.market_data
    models,               \* self.models
    predictions,          \* self.predictions
    technical_indicators, \* self.technical_indicators
    out,                  \* the lines printed by the call made last (as a set)
    mainPc,               \* position of the caller
    mainI,                \* index of the caller's training loop
    fault,                \* the exception that ended the caller, or "none"
    phase,                \* position of the train_predict_lstm call in flight
    cur,                  \* its symbol argument
    scaler,               \* its locals, named as in the source
    scaled_data,
    training_data_len,
    x_train,
    y_train,
    model,
    x_test,
    y_test,
    hist,                 \* the local `predictions` (historical predictions)
    rmse,
    current_sequence,
    future_predictions

vars == <<symbols, source, prediction_days, interval, stock_data, market_data,
          models, predictions, technical_indicators, out, mainPc, mainI, fault,
          phase, cur, scaler, scaled_data, training_data_len, x_train, y_train,
          model, x_test, y_test, hist, rmse, current_sequence,
          future_predictions>>

sysVars == <<stock_data, market_data, models, predictions, technical_indicators>>

callVars == <<phase, cur, scaler, scaled_data, training_data_len, x_train,
              y_train, model, x_test, y_test, hist, rmse, current_sequence,
              future_predictions>>

inputVars == <<symbols, source, prediction_days, interval>>

----------------------------------------------------------------------------
(* Program constants *)

time_steps == 60

DefaultPredictionDays == 30

RsiWindow == 14

TrainNum == 4

TrainDen == 5

HoursPerDay == 24

AllSymbols == <<"AAPL", "MSFT", "AMZN", "GOOGL", "META">>

(* Bounds of the model *)

NSym == 3

MaxLen == 85

ShortLen == 50

MaxHorizon == 3

Overrun == 2

BasePrice == 100

PlateauAt == 20

----------------------------------------------------------------------------
(* Generic helpers *)

Range(f) == {f[i] : i \in DOMAIN f}

Put(f, k, v) == [x \in (DOMAIN f) \cup {k} |-> IF x = k THEN v ELSE f[x]]

MinOf(S) == CHOOSE m \in S : \A x \in S : m <= x

MaxOf(S) == CHOOSE m \in S : \A x \in S : m >= x

\* a[lo:hi] of Python on a sequence of length Len(a), 0-based, with the
\* negative-index wrap and the clamping numpy and Python apply
PySlice(a, lo, hi) ==
    LET n  == Len(a)
        l0 == IF lo < 0 THEN (IF lo + n < 0 THEN 0 ELSE lo + n) ELSE (IF lo > n THEN n ELSE lo)
        h0 == IF hi < 0 THEN (IF hi + n < 0 THEN 0 ELSE hi + n) ELSE (IF hi > n THEN n ELSE hi)
    IN  IF h0 <= l0 THEN <<>> ELSE [k \in 1..(h0 - l0) |-> a[l0 + k]]

\* mutant: the split index rounded down
FloorFrac(n) == (n * TrainNum) \div TrainDen

\* int(np.ceil(n * 0.8))
CeilFrac(n) == (n * TrainNum + TrainDen - 1) \div TrainDen

----------------------------------------------------------------------------
(* The data provider: ticker.history(period, interval) *)

Shapes == {"flat", "ramp", "zigzag", "plateau"}

Intervals == {"1h", "1d"}

DefaultInterval == "1d"

Periods == {"3mo", "1y"}

DefaultPeriod == "1y"

StepHours(iv) == IF iv = "1h" THEN 1 ELSE HoursPerDay

ClosePrice(shape, i) ==
    CASE shape = "flat" -> BasePrice
      [] shape = "ramp" -> BasePrice + i
      [] shape = "zigzag" -> BasePrice + ((3 * i) % 7)
      [] OTHER -> BasePrice + (IF i < PlateauAt THEN i ELSE PlateauAt)

NoData(kind) == [kind |-> kind, n |-> 0, shape |-> "flat", fit_ok |-> TRUE]

Bars(n, shape, ok) == [kind |-> "data", n |-> n, shape |-> shape, fit_ok |-> ok]

\* the DataFrame ticker.history returns (Close and its index; the other
\* price columns and the derived return columns are not read by the forecast
\* or the RSI)
History(o, iv) ==
    [Close |-> [i \in 1..o.n |-> ClosePrice(o.shape, i)],
     Index |-> [i \in 1..o.n |-> (i - 1) * StepHours(iv)]]

\* what the provider returns of a series when asked for the given period:
\* all of it for the default period, at most ShortLen bars for the shorter one
PeriodBars(o, period) ==
    IF o.kind = "data" /\ period # DefaultPeriod /\ o.n > ShortLen
    THEN Bars(ShortLen, o.shape, o.fit_ok)
    ELSE o

----------------------------------------------------------------------------
(* collect_stock_data *)

\* one pass of the loop body (lines 48-71) over symbols[i..]
RECURSIVE CollectLoop(_, _, _, _, _)
CollectLoop(sd, syms, i, period, iv) ==
    IF i > Len(syms) THEN sd
    ELSE LET s == syms[i]
             o == PeriodBars(source[s], period)
         IN  IF o.kind = "data"
             THEN CollectLoop(Put(sd, s, History(o, iv) @@ [Symbol |-> s]),
                              syms, i + 1, period, iv)
             ELSE CollectLoop(sd, syms, i + 1, period, iv)

CollectPrinted(syms) ==
    {<<IF source[syms[i]].kind = "data" THEN "collected"
       ELSE IF source[syms[i]].kind = "empty" THEN "no data returned"
       ELSE "error collecting data", syms[i]>> : i \in DOMAIN syms}

collect_stock_data(syms, period, iv) ==
    /\ stock_data' = CollectLoop(stock_data, syms, 1, period, iv)
    /\ \E m \in {market_data, "GSPC"} : market_data' = m
    /\ out' = CollectPrinted(syms)
    /\ UNCHANGED <<models, predictions, technical_indicators>>

----------------------------------------------------------------------------
(* calculate_technical_indicators: the RSI column *)

\* delta = Close.diff(); gain = delta.where(delta > 0, 0)
Gain(close, i) ==
    IF i >= 2 /\ close[i] - close[i - 1] > 0 THEN close[i] - close[i - 1] ELSE 0

\* loss = -delta.where(delta < 0, 0)
Loss(close, i) ==
    IF i >= 2 /\ close[i] - close[i - 1] < 0 THEN close[i - 1] - close[i] ELSE 0

\* the sum rolling(window=14).mean() takes of gain[lo..hi]
RECURSIVE SumGain(_, _, _)
SumGain(close, lo, hi) ==
    IF lo > hi THEN 0 ELSE Gain(close, lo) + SumGain(close, lo + 1, hi)

\* the sum rolling(window=14).mean() takes of loss[lo..hi]
RECURSIVE SumLoss(_, _, _)
SumLoss(close, lo, hi) ==
    IF lo > hi THEN 0 ELSE Loss(close, lo) + SumLoss(close, lo + 1, hi)

\* float values of the RSI computation: a fraction num/den, inf, or NaN
NaN == [k |-> "nan", num |-> 0, den |-> 0]

Inf == [k |-> "inf", num |-> 0, den |-> 0]

Frac(a, b) == [k |-> "num", num |-> a, den |-> b]

\* rs = avg_gain / avg_loss on floats: x/0 is inf, 0/0 is NaN
Rs(g, l) ==
    IF l = 0 THEN (IF g = 0 THEN NaN ELSE Inf) ELSE Frac(g, l)

\* 100 - (100 / (1 + rs))
RsiOf(rs) ==
    IF rs.k = "nan" THEN NaN
    ELSE IF rs.k = "inf" THEN Frac(100, 1)
    ELSE Frac(100 * rs.num, rs.num + rs.den)

\* rolling(window=14).mean() is NaN until 14 observations are in the window
RsiColumn(close) ==
    [i \in DOMAIN close |->
        IF i < RsiWindow THEN NaN
        ELSE RsiOf(Rs(SumGain(close, i - RsiWindow + 1, i),
                      SumLoss(close, i - RsiWindow + 1, i)))]

IndicatorFrame(data) == data @@ [RSI |-> RsiColumn(data.Close)]

calculate_technical_indicators ==
    /\ technical_indicators' =
           [s \in (DOMAIN technical_indicators) \cup (DOMAIN stock_data) |->
               IF s \in DOMAIN stock_data THEN IndicatorFrame(stock_data[s])
               ELSE technical_indicators[s]]
    /\ out' = {<<"calculated indicators", s>> : s \in DOMAIN stock_data}
    /\ UNCHANGED <<stock_data, market_data, models, predictions>>

----------------------------------------------------------------------------
(* train_predict_lstm *)

\* mutant: the scaler fitted on the train portion only
MinMaxFitTrainOnly(values) ==
    LET head == PySlice(values, 0, CeilFrac(Len(values)))
        lo == MinOf(Range(head))
        hi == MaxOf(Range(head))
    IN  [data_min |-> lo, data_max |-> hi,
         den |-> IF hi - lo = 0 THEN 1 ELSE hi - lo,
         n_samples_seen |-> Len(head)]

\* MinMaxScaler(feature_range=(0, 1)).fit: a zero data range is replaced by 1
MinMaxFit(values) ==
    LET lo == MinOf(Range(values))
        hi == MaxOf(Range(values))
    IN  [data_min |-> lo, data_max |-> hi,
         den |-> IF hi - lo = 0 THEN 1 ELSE hi - lo,
         n_samples_seen |-> Len(values)]

\* scaler.transform: (x - data_min) / den, held as the numerator
Transform(sc, values) == [i \in DOMAIN values |-> values[i] - sc.data_min]

\* scaler.inverse_transform: y * den + data_min for y = num / den
InverseTransform(sc, nums) == [i \in DOMAIN nums |-> nums[i] + sc.data_min]

\* the regressors a fit may produce: the weights are opaque, the output is
\* a function of the window alone
PredictorKinds == {"last", "trend"}

\* model.predict on one window of time_steps scaled values
Predict(m, w) ==
    IF m.kind = "last" THEN w[Len(w)] ELSE 2 * w[Len(w)] - w[Len(w) - 1]

\* train_data = scaled_data[0:training_data_len, :]
TrainData(sd, tdl) == PySlice(sd, 0, tdl)

\* mutant: train windows one position late, so each holds its own target
XTrainShifted(td) ==
    [k \in 1..(IF Len(td) > time_steps THEN Len(td) - time_steps ELSE 0) |->
        PySlice(td, (time_steps + k) - time_steps, time_steps + k)]

\* for i in range(time_steps, len(train_data)): train_data[i-time_steps:i, 0]
XTrain(td) ==
    [k \in 1..(IF Len(td) > time_steps THEN Len(td) - time_steps ELSE 0) |->
        PySlice(td, (time_steps + k - 1) - time_steps, time_steps + k - 1)]

\* y_train.append(train_data[i, 0])
YTrain(td) ==
    [k \in 1..(IF Len(td) > time_steps THEN Len(td) - time_steps ELSE 0) |->
        td[time_steps + k]]

\* test_data = scaled_data[training_data_len - time_steps:, :]
TestData(sd, tdl) == PySlice(sd, tdl - time_steps, Len(sd))

\* mutant: test windows one position late, so each holds its own target
XTestShifted(td) ==
    [k \in 1..(IF Len(td) > time_steps THEN Len(td) - time_steps ELSE 0) |->
        PySlice(td, (time_steps + k) - time_steps, time_steps + k)]

\* for i in range(time_steps, len(test_data)): test_data[i-time_steps:i, 0]
XTest(td) ==
    [k \in 1..(IF Len(td) > time_steps THEN Len(td) - time_steps ELSE 0) |->
        PySlice(td, (time_steps + k - 1) - time_steps, time_steps + k - 1)]

\* y_test = close_prices[training_data_len:, 0]
YTest(close, tdl) == PySlice(close, tdl, Len(close))

RECURSIVE SumSq(_, _, _)
SumSq(a, b, i) ==
    IF i > Len(a) THEN 0 ELSE (a[i] - b[i]) * (a[i] - b[i]) + SumSq(a, b, i + 1)

\* np.sqrt(mean_squared_error(y_test, predictions)), held as its square
\* sq_num / sq_den
Rmse(y, p) == [sq_num |-> SumSq(y, p, 1), sq_den |-> Len(y)]

\* last_sequence = scaled_data[-time_steps:]
LastSequence(sd) == PySlice(sd, 0 - time_steps, Len(sd))

\* mutant: the newest value is dropped instead of the oldest
SlideDropNewest(seq, pred) == Append(SubSeq(seq, 1, Len(seq) - 1), pred)

\* new_sequence = np.append(current_sequence[0][1:], pred)
Slide(seq, pred) == Append(Tail(seq), pred)

\* mutant: the forecast dates start at the last bar itself
FutureDatesFromLast(last_date, days) ==
    [j \in 1..days |-> last_date + (j - 1) * HoursPerDay]

\* pd.date_range(start=last_date + timedelta(days=1), periods=prediction_days)
FutureDates(last_date, days) ==
    [j \in 1..days |-> (last_date + HoursPerDay) + (j - 1) * HoursPerDay]

close_prices == stock_data[cur].Close

NoScaler == [data_min |-> 0, data_max |-> 0, den |-> 0, n_samples_seen |-> 0]

NoModel == [kind |-> "none", fit_x |-> <<>>, fit_y |-> <<>>]

NoRmse == [sq_num |-> 0, sq_den |-> 0]

\* the exception leaves train_predict_lstm and, uncaught, ends the caller
Raise(e) ==
    /\ phase' = "Failed"
    /\ fault' = e
    /\ mainPc' = "aborted"

\* lines 133-145: look the symbol up, fit the scaler on every close
TrainBegin(s, days) ==
    /\ phase \in {"idle", "Done", "Failed"}
    /\ cur' = s
    /\ x_train' = <<>> /\ y_train' = <<>> /\ x_test' = <<>> /\ y_test' = <<>>
    /\ model' = NoModel /\ hist' = <<>> /\ rmse' = NoRmse
    /\ training_data_len' = 0
    /\ current_sequence' = <<>> /\ future_predictions' = <<>>
    /\ out' = {<<"training", s>>}
    /\ IF s \notin DOMAIN stock_data
       THEN /\ Raise("KeyError")
            /\ scaler' = NoScaler /\ scaled_data' = <<>>
       ELSE /\ scaler' = MinMaxFit(stock_data[s].Close)
            /\ scaled_data' = Transform(MinMaxFit(stock_data[s].Close), stock_data[s].Close)
            /\ phase' = "Untrained"
            /\ UNCHANGED <<fault, mainPc>>
    /\ UNCHANGED <<sysVars, inputVars>>

\* lines 147-181: split off the train windows, build and fit the model
TrainFit ==
    /\ phase = "Untrained"
    /\ training_data_len' = CeilFrac(Len(scaled_data))
    /\ x_train' = XTrain(TrainData(scaled_data, CeilFrac(Len(scaled_data))))
    /\ y_train' = YTrain(TrainData(scaled_data, CeilFrac(Len(scaled_data))))
    /\ IF x_train' = <<>>
       THEN Raise("IndexError") /\ model' = model
       ELSE IF ~source[cur].fit_ok
       THEN Raise("TrainingFailure") /\ model' = model
       ELSE /\ \E kd \in PredictorKinds :
                   model' = [kind |-> kd, fit_x |-> x_train', fit_y |-> y_train']
            /\ phase' = "Trained"
            /\ UNCHANGED <<fault, mainPc>>
    /\ UNCHANGED <<sysVars, inputVars, mainI, out, cur, scaler, scaled_data,
                   x_test, y_test, hist, rmse, current_sequence, future_predictions>>

\* lines 183-206: test windows, historical predictions, RMSE, rollout seed
TrainEvaluate ==
    /\ phase = "Trained"
    /\ x_test' = XTest(TestData(scaled_data, training_data_len))
    /\ y_test' = YTest(close_prices, training_data_len)
    /\ IF x_test' = <<>>
       THEN /\ Raise("IndexError")
            /\ UNCHANGED <<hist, rmse, current_sequence>>
       ELSE /\ hist' = InverseTransform(scaler,
                          [k \in DOMAIN x_test' |-> Predict(model, x_test'[k])])
            /\ IF Len(y_test') # Len(hist')
               THEN /\ Raise("ValueError")
                    /\ UNCHANGED <<rmse, current_sequence>>
               ELSE /\ rmse' = Rmse(y_test', hist')
                    /\ IF Len(LastSequence(scaled_data)) # time_steps
                       THEN Raise("ValueError") /\ current_sequence' = current_sequence
                       ELSE /\ current_sequence' = LastSequence(scaled_data)
                            /\ phase' = "Forecasting"
                            /\ UNCHANGED <<fault, mainPc>>
    /\ UNCHANGED <<sysVars, inputVars, mainI, out, cur, scaler, scaled_data,
                   training_data_len, x_train, y_train, model, future_predictions>>

\* lines 208-217: one iteration of the rollout loop
RolloutStep ==
    /\ phase = "Forecasting"
    /\ Len(future_predictions) < prediction_days
    /\ future_predictions' = Append(future_predictions, Predict(model, current_sequence))
    /\ current_sequence' = Slide(current_sequence, Predict(model, current_sequence))
    /\ UNCHANGED <<sysVars, inputVars, mainPc, mainI, fault, out, phase, cur,
                   scaler, scaled_data, training_data_len, x_train, y_train,
                   model, x_test, y_test, hist, rmse>>

\* visualize_predictions: the dates the historical predictions are drawn at,
\* stock_data.index[len(stock_data) - len(predictions['historical']):]
HistoricalDates(s) ==
    PySlice(stock_data[s].Index,
            Len(stock_data[s].Close) - Len(predictions[s].historical),
            Len(stock_data[s].Index))

\* predictions[symbol] as stored at lines 235-241
StoredResult ==
    [historical |-> hist,
     future |-> [Date |-> FutureDates(stock_data[cur].Index[Len(stock_data[cur].Index)],
                                      prediction_days),
                 Predicted_Close |-> InverseTransform(scaler, future_predictions)],
     rmse |-> rmse,
     scaler |-> scaler,
     time_steps |-> time_steps]

\* mutant: one model and one result shared by every symbol stored so far
TrainStoreShared ==
    /\ phase = "Forecasting"
    /\ Len(future_predictions) >= prediction_days
    /\ models' = [x \in (DOMAIN models) \cup {cur} |-> model]
    /\ predictions' = [x \in (DOMAIN predictions) \cup {cur} |-> StoredResult]
    /\ out' = out \cup {<<"trained", cur>>}
    /\ phase' = "Done"
    /\ UNCHANGED <<stock_data, market_data, technical_indicators, inputVars,
                   mainPc, mainI, fault, cur, scaler, scaled_data,
                   training_data_len, x_train, y_train, model, x_test, y_test,
                   hist, rmse, current_sequence, future_predictions>>

\* mutant: the model is stored, the result is not
TrainStoreModelOnly ==
    /\ phase = "Forecasting"
    /\ Len(future_predictions) >= prediction_days
    /\ models' = Put(models, cur, model)
    /\ out' = out \cup {<<"trained", cur>>}
    /\ phase' = "Done"
    /\ UNCHANGED <<stock_data, market_data, predictions, technical_indicators,
                   inputVars, mainPc, mainI, fault, cur, scaler, scaled_data,
                   training_data_len, x_train, y_train, model, x_test, y_test,
                   hist, rmse, current_sequence, future_predictions>>

\* lines 219-245: inverse transform, date the forecast, store model and result
TrainStore ==
    /\ phase = "Forecasting"
    /\ Len(future_predictions) >= prediction_days
    /\ models' = Put(models, cur, model)
    /\ predictions' = Put(predictions, cur, StoredResult)
    /\ out' = out \cup {<<"trained", cur>>}
    /\ phase' = "Done"
    /\ UNCHANGED <<stock_data, market_data, technical_indicators, inputVars,
                   mainPc, mainI, fault, cur, scaler, scaled_data,
                   training_data_len, x_train, y_train, model, x_test, y_test,
                   hist, rmse, current_sequence, future_predictions>>

----------------------------------------------------------------------------
(* The caller: the __main__ block, lines 722-740 *)

\* analysis_system.collect_stock_data(symbols)
MainCollect ==
    /\ mainPc = "collect"
    /\ collect_stock_data(symbols, DefaultPeriod, interval)
    /\ mainPc' = "indicators"
    /\ UNCHANGED <<inputVars, callVars, mainI, fault>>

\* analysis_system.calculate_technical_indicators()
MainIndicators ==
    /\ mainPc = "indicators"
    /\ calculate_technical_indicators
    /\ mainPc' = "train"
    /\ UNCHANGED <<inputVars, callVars, mainI, fault>>

\* for symbol in symbols: analysis_system.train_predict_lstm(symbol)
MainTrain ==
    /\ mainPc = "train"
    /\ phase \in {"idle", "Done"}
    /\ mainI < Len(symbols)
    /\ mainI' = mainI + 1
    /\ TrainBegin(symbols[mainI + 1], prediction_days)

\* analysis_system.export_analysis_report(symbols): reporting is not modelled
MainReport ==
    /\ mainPc = "train"
    /\ phase \in {"idle", "Done"}
    /\ mainI = Len(symbols)
    /\ mainPc' = "done"
    /\ UNCHANGED <<sysVars, inputVars, callVars, mainI, fault, out>>

\* StockAnalysisSystem.__init__ and the locals of a call not yet made
InitObject ==
    /\ stock_data = <<>>
    /\ market_data = "None"
    /\ models = <<>>
    /\ predictions = <<>>
    /\ technical_indicators = <<>>
    /\ out = {}
    /\ mainI = 0
    /\ fault = "none"
    /\ phase = "idle"
    /\ cur = "none"
    /\ scaler = NoScaler
    /\ scaled_data = <<>>
    /\ training_data_len = 0
    /\ x_train = <<>> /\ y_train = <<>> /\ x_test = <<>> /\ y_test = <<>>
    /\ model = NoModel
    /\ hist = <<>>
    /\ rmse = NoRmse
    /\ current_sequence = <<>>
    /\ future_predictions = <<>>

\* the object as __main__ finds it before its first call
InitSystem ==
    /\ InitObject
    /\ mainPc = "collect"

\* what the provider may return to the __main__ run for one symbol
MainOutcomes ==
    {NoData("fault"), NoData("empty"), Bars(ShortLen, "ramp", TRUE),
     Bars(MaxLen, "flat", TRUE), Bars(MaxLen, "ramp", TRUE),
     Bars(MaxLen, "ramp", FALSE), Bars(MaxLen, "plateau", TRUE)}

\* what the provider may return to a run over a single symbol
SingleOutcomes ==
    {NoData("fault"), NoData("empty")}
        \cup {Bars(n, sh, TRUE) : n \in 1..MaxLen, sh \in Shapes}
        \cup {Bars(MaxLen, sh, FALSE) : sh \in Shapes}

\* the run of __main__: its symbol list (cut to NSym), default horizon and interval
Init ==
    /\ symbols = SubSeq(AllSymbols, 1, NSym)
    /\ source \in [Range(symbols) -> MainOutcomes]
    /\ prediction_days = DefaultPredictionDays
    /\ interval = DefaultInterval
    /\ InitSystem

\* the same call sequence for one symbol, any horizon and interval
InitSingle ==
    /\ symbols = <<AllSymbols[1]>>
    /\ source \in [Range(symbols) -> SingleOutcomes]
    /\ prediction_days \in 1..MaxHorizon
    /\ interval \in Intervals
    /\ InitSystem

\* one symbol, with a horizon short of and one beyond the window length
InitRollout ==
    /\ symbols = <<AllSymbols[1]>>
    /\ source \in [Range(symbols) -> SingleOutcomes]
    /\ prediction_days \in {MaxHorizon, time_steps + Overrun}
    /\ interval = DefaultInterval
    /\ InitSystem

----------------------------------------------------------------------------
(* A caller that uses the three methods in any order (a notebook session):
   a call that raises ends its cell and the session goes on *)

\* two symbols: the least that gives every symbol another one beside it
ApiSymbols == <<AllSymbols[1], AllSymbols[2]>>

ApiOutcomes == {NoData("fault"), Bars(MaxLen, "ramp", TRUE)}

\* the symbol lists a call may pass: one symbol, or all of them
ApiLists == {<<s>> : s \in Range(ApiSymbols)} \cup {ApiSymbols}

ApiSession == mainPc \in {"api", "aborted"}

ApiCollect ==
    /\ ApiSession
    /\ phase = "idle"
    /\ \E syms \in ApiLists : \E period \in Periods :
           collect_stock_data(syms, period, interval)
    /\ UNCHANGED <<inputVars, callVars, mainPc, mainI, fault>>

ApiIndicators ==
    /\ ApiSession
    /\ phase = "idle"
    /\ calculate_technical_indicators
    /\ UNCHANGED <<inputVars, callVars, mainPc, mainI, fault>>

ApiTrain ==
    /\ ApiSession
    /\ phase = "idle"
    /\ \E s \in Range(symbols) : TrainBegin(s, prediction_days)
    /\ UNCHANGED mainI

\* train_predict_lstm has returned or raised: its locals are gone
ApiReturn ==
    /\ ApiSession
    /\ phase \in {"Done", "Failed"}
    /\ phase' = "idle"
    /\ cur' = "none"
    /\ scaler' = NoScaler
    /\ scaled_data' = <<>>
    /\ training_data_len' = 0
    /\ x_train' = <<>> /\ y_train' = <<>> /\ x_test' = <<>> /\ y_test' = <<>>
    /\ model' = NoModel
    /\ hist' = <<>>
    /\ rmse' = NoRmse
    /\ current_sequence' = <<>>
    /\ future_predictions' = <<>>
    /\ fault' = "none"
    /\ mainPc' = "api"
    /\ out' = {}
    /\ UNCHANGED <<sysVars, inputVars, mainI>>

InitApi ==
    /\ symbols = ApiSymbols
    /\ source \in [Range(symbols) -> ApiOutcomes]
    /\ prediction_days = 1
    /\ interval = DefaultInterval
    /\ InitObject
    /\ mainPc = "api"

NextApi ==
    \/ ApiCollect
    \/ ApiIndicators
    \/ ApiTrain
    \/ TrainFit
    \/ TrainEvaluate
    \/ RolloutStep
    \/ TrainStore
    \/ ApiReturn

Next ==
    \/ MainCollect
    \/ MainIndicators
    \/ MainTrain
    \/ TrainFit
    \/ TrainEvaluate
    \/ RolloutStep
    \/ TrainStore
    \/ MainReport

Spec == Init /\ [][Next]_vars

SpecRollout == InitRollout /\ [][Next]_vars

SpecApi == InitApi /\ [][NextApi]_vars

SpecSingle == InitSingle /\ [][Next]_vars

----------------------------------------------------------------------------
(* Claims *)

SeriesLen == Len(stock_data[cur].Close)

CallHasData == cur \in DOMAIN stock_data

RunEnded == mainPc \in {"done", "aborted"}

\* a symbol the provider served a long enough, non-constant series for, and
\* whose model fit does not fail
Usable(s) ==
    /\ source[s].kind = "data"
    /\ source[s].n >= time_steps + 1
    /\ source[s].shape # "flat"
    /\ source[s].fit_ok

\* the symbol has an entry in one of the system's per-symbol mappings
Recorded(s) ==
    s \in (DOMAIN stock_data) \cup (DOMAIN technical_indicators)
              \cup (DOMAIN models) \cup (DOMAIN predictions)

\* C1: a failure while collecting or forecasting one symbol does not abort
\* the remaining symbols: when the run has ended, every symbol with usable
\* data has been collected, given indicators and forecast.
C1_FailureDoesNotAbortOthers ==
    RunEnded =>
        \A s \in Range(symbols) :
            Usable(s) => /\ s \in DOMAIN stock_data
                         /\ s \in DOMAIN technical_indicators
                         /\ s \in DOMAIN predictions

\* C2: once the split has run on a (non-constant) series, the forecast has
\* failed for lack of data exactly when the series has fewer than
\* time_steps + 1 observations.
C2_InsufficientDataThreshold ==
    (CallHasData /\ phase \notin {"idle", "Untrained"}
        /\ scaler.data_min # scaler.data_max) =>
        ((phase = "Failed" /\ fault \in {"IndexError", "ValueError"})
            <=> SeriesLen < time_steps + 1)

\* C3: a constant price series is rejected at the scaler fit: its forecast
\* never reaches Trained and no model or prediction is stored for it.
C3_ConstantSeriesRejected ==
    (CallHasData /\ phase # "idle" /\ scaler.data_min = scaler.data_max) =>
        /\ phase \in {"Untrained", "Failed"}
        /\ cur \notin DOMAIN models
        /\ cur \notin DOMAIN predictions

\* C8: wherever the 14-period window is full the RSI is a number within
\* 0..100, and it is 100 whenever the window's average loss is zero.
C8_RsiBoundedAndClamped ==
    \A s \in DOMAIN technical_indicators :
        \A i \in DOMAIN technical_indicators[s].RSI :
            i > RsiWindow =>
                LET r == technical_indicators[s].RSI[i]
                    l == SumLoss(technical_indicators[s].Close, i - RsiWindow + 1, i)
                IN  /\ r.k = "num"
                    /\ 0 <= r.num /\ r.num <= 100 * r.den
                    /\ l = 0 => r.num = 100 * r.den

\* C9: after collection every symbol the provider returned nothing for, or
\* faulted on, is recorded in the system's per-symbol results, and every other
\* symbol's stored series is what the provider returned for it.
C9_SkippedSymbolRecorded ==
    mainPc # "collect" =>
        \A s \in Range(symbols) :
            IF source[s].kind = "data"
            THEN s \in DOMAIN stock_data /\ stock_data[s].Close = History(source[s], interval).Close
            ELSE Recorded(s)

\* the window of time_steps scaled values ending just before index i (1-based)
WindowBefore(i) == [j \in 1..time_steps |-> scaled_data[i - time_steps - 1 + j]]

\* index (1-based) of the target of the k-th train window
TrainTarget(k) == time_steps + k

\* index (1-based) of the target of the k-th test window: the test windows
\* cover the last Len(x_test) positions of the series
TestTarget(k) == SeriesLen - Len(x_test) + k

\* ceil(0.8 n) = n - floor(n / 5)
SplitIndex(n) == n - (n \div TrainDen)

WindowsFormed == CallHasData /\ phase \in {"Forecasting", "Done"}

C5_PositionalSplit ==
    CallHasData =>
        /\ \A k \in DOMAIN x_train :
               /\ x_train[k] = WindowBefore(TrainTarget(k))
               /\ y_train[k] = scaled_data[TrainTarget(k)]
        /\ \A k \in DOMAIN x_test :
               /\ x_test[k] = WindowBefore(TestTarget(k))
               /\ k \in DOMAIN y_test /\ y_test[k] = stock_data[cur].Close[TestTarget(k)]
        /\ \A k \in DOMAIN x_test : \A j \in DOMAIN x_train :
               TestTarget(k) > TrainTarget(j)

C5_Witness ==
    /\ WindowsFormed
    /\ source[cur].shape = "ramp"
    /\ Len(x_train) >= 2 /\ Len(x_test) >= 2

\* C6: the historical predictions, the test windows and the actual closes
\* of the RMSE are equally many, and the k-th prediction is made from the
\* time_steps scaled values just before the k-th of the last Len(hist)
\* positions of the series, whose close is the k-th actual value and whose
\* date is the one the stored prediction is drawn at.
C6_HistoricalAligned ==
    WindowsFormed =>
        /\ Len(hist) = Len(x_test)
        /\ Len(hist) = Len(y_test)
        /\ rmse.sq_den = Len(hist)
        /\ \A k \in DOMAIN hist :
               LET i == SeriesLen - Len(hist) + k
               IN  /\ hist[k] = Predict(model, WindowBefore(i)) + scaler.data_min
                   /\ y_test[k] = stock_data[cur].Close[i]
        /\ phase = "Done" =>
               /\ predictions[cur].historical = hist
               /\ Len(HistoricalDates(cur)) = Len(hist)
               /\ \A k \in DOMAIN hist :
                      HistoricalDates(cur)[k] = stock_data[cur].Index[training_data_len + k]

C6_Witness ==
    /\ phase = "Done"
    /\ source[cur].shape = "ramp"
    /\ model.kind = "trend"
    /\ Len(hist) >= 2

StrictlyIncreasing(a) == \A i \in DOMAIN a : \A j \in DOMAIN a : i < j => a[i] < a[j]

\* C7: every stored future forecast has exactly prediction_days entries,
\* with strictly increasing timestamps all after the series' last timestamp.
C7_FutureHorizon ==
    \A s \in DOMAIN predictions :
        LET f == predictions[s].future
            last == stock_data[s].Index[Len(stock_data[s].Index)]
        IN  /\ Len(f.Date) = prediction_days
            /\ Len(f.Predicted_Close) = prediction_days
            /\ StrictlyIncreasing(f.Date)
            /\ \A j \in DOMAIN f.Date : f.Date[j] > last

C7_Witness ==
    /\ prediction_days = MaxHorizon
    /\ interval = "1h"
    /\ \E s \in DOMAIN predictions : Len(predictions[s].future.Date) >= 2

PhaseSteps ==
    {<<"idle", "Untrained">>, <<"Untrained", "Trained">>,
     <<"Trained", "Forecasting">>, <<"Forecasting", "Done">>,
     <<"Done", "Untrained">>,
     <<"idle", "Failed">>, <<"Done", "Failed">>, <<"Untrained", "Failed">>}

C10_Step == phase' # phase => <<phase, phase'>> \in PhaseSteps

C10_PhaseInv ==
    /\ (hist # <<>> \/ future_predictions # <<>> \/ current_sequence # <<>>)
           => phase \in {"Forecasting", "Done"}
    /\ phase \in {"idle", "Untrained"} => model = NoModel
    /\ phase \in {"Trained", "Forecasting", "Done"} =>
           /\ CallHasData
           /\ scaler.n_samples_seen = SeriesLen
           /\ \A i \in 1..SeriesLen :
                  /\ scaler.data_min <= stock_data[cur].Close[i]
                  /\ stock_data[cur].Close[i] <= scaler.data_max
           /\ scaler.data_min \in Range(stock_data[cur].Close)
           /\ scaler.data_max \in Range(stock_data[cur].Close)
           /\ model.kind \in PredictorKinds
           /\ Len(model.fit_x) = SplitIndex(SeriesLen) - time_steps
           /\ Len(model.fit_y) = Len(model.fit_x)
           /\ \A k \in DOMAIN model.fit_x :
                  /\ TrainTarget(k) <= SplitIndex(SeriesLen)
                  /\ model.fit_x[k] = WindowBefore(TrainTarget(k))
                  /\ model.fit_y[k] = scaled_data[TrainTarget(k)]
    /\ phase \in {"Forecasting", "Done"} =>
           /\ Len(hist) = SeriesLen - SplitIndex(SeriesLen)
           /\ Len(hist) >= 1
           /\ rmse.sq_den = Len(hist)
           /\ Len(current_sequence) = time_steps
           /\ Len(future_predictions) <= prediction_days
    /\ phase = "Done" =>
           /\ cur \in DOMAIN predictions /\ cur \in DOMAIN models
           /\ models[cur] = model
           /\ predictions[cur].historical = hist
           /\ Len(predictions[cur].future.Predicted_Close) = prediction_days
           /\ Len(predictions[cur].future.Date) = prediction_days
           /\ predictions[cur].rmse = rmse
           /\ predictions[cur].scaler = scaler

\* C10: a forecast run moves only Untrained -> Trained -> Forecasting -> Done
\* (leaving only by a fault raised before Trained); from Trained on the
\* scaler is fitted on the full price array and the model is fitted on the
\* train windows only; no prediction exists before Trained, the historical
\* predictions and RMSE exist before the rollout starts, and at Done the
\* stored result holds historical predictions, future forecast, RMSE and
\* the fitted scaler.
C10_ForecastStateMachine == [](C10_PhaseInv) /\ [][C10_Step]_vars

C10_Witness ==
    /\ phase = "Done"
    /\ source[cur].shape = "ramp"
    /\ Len(hist) >= 2
    /\ Len(predictions[cur].future.Date) = MaxHorizon

\* the number of rollout iterations done
RolloutK == Len(future_predictions)

\* the window after k iterations: the last max(0, t - k) scaled observations,
\* then the most recent min(k, t) predictions, oldest first
ExpectedWindow(k) ==
    [j \in 1..time_steps |->
        IF j <= time_steps - k
        THEN scaled_data[Len(scaled_data) - (time_steps - k) + j]
        ELSE future_predictions[k - time_steps + j]]

C11_WindowInv ==
    (CallHasData /\ phase \in {"Forecasting", "Done"}) =>
        /\ Len(current_sequence) = time_steps
        /\ RolloutK <= prediction_days
        /\ current_sequence = ExpectedWindow(RolloutK)

C11_Slide ==
    (phase = "Forecasting" /\ future_predictions' # future_predictions) =>
        /\ Len(future_predictions') = Len(future_predictions) + 1
        /\ SubSeq(future_predictions', 1, Len(future_predictions)) = future_predictions
        /\ \A j \in 1..(time_steps - 1) : current_sequence'[j] = current_sequence[j + 1]
        /\ current_sequence'[time_steps] = future_predictions'[Len(future_predictions')]
        /\ scaled_data' = scaled_data

\* C11: during the rollout the input window always has time_steps values;
\* after k iterations it is the last max(0, t - k) scaled observations of
\* the whole series followed by the most recent min(k, t) scaled
\* predictions, and each iteration drops exactly the oldest value and
\* appends exactly the newest prediction.
C11_RolloutWindow == [](C11_WindowInv) /\ [][C11_Slide]_vars

C11_Witness ==
    /\ phase = "Forecasting"
    /\ source[cur].shape = "ramp"
    /\ model.kind = "trend"
    /\ RolloutK > time_steps

\* the spacing of the bars of a stored series (its native sampling interval)
NativeStep(s) == stock_data[s].Index[2] - stock_data[s].Index[1]

\* C12: the j-th future timestamp of every stored forecast is the series'
\* last timestamp plus j times the series' native sampling interval.
C12_FutureAtNativeInterval ==
    \A s \in DOMAIN predictions :
        LET f == predictions[s].future
            last == stock_data[s].Index[Len(stock_data[s].Index)]
        IN  \A j \in DOMAIN f.Date : f.Date[j] = last + j * NativeStep(s)

\* a step of a train_predict_lstm call: the call is in flight, or has just
\* stored or raised, after it
TrainCallStep == phase' # "idle"

\* a step of collect_stock_data: it prints a line for each symbol of its list
CollectStep ==
    \E m \in out' : m[1] \in {"collected", "no data returned", "error collecting data"}

\* the entry of mapping f for key x is the same before and after the step
SameEntry(f, g, x) ==
    /\ (x \in DOMAIN f) <=> (x \in DOMAIN g)
    /\ x \in DOMAIN f => f[x] = g[x]

C13_Step ==
    /\ ~CollectStep => stock_data' = stock_data
    /\ TrainCallStep =>
           /\ ~CollectStep
           /\ technical_indicators' = technical_indicators
           /\ \A x \in Range(symbols) \ {cur'} :
                  /\ SameEntry(models, models', x)
                  /\ SameEntry(predictions, predictions', x)

\* C13: calculate_technical_indicators and train_predict_lstm(s) never
\* change stock_data, and every step of train_predict_lstm(s) leaves the
\* indicators and every other symbol's model and predictions as they were.
C13_PerSymbolIsolation == [][C13_Step]_vars

C13_Witness ==
    /\ phase = "Done"
    /\ cur \in DOMAIN predictions
    /\ \E x \in (DOMAIN predictions) \ {cur} :
           /\ x \in DOMAIN technical_indicators
           /\ models[x].kind # models[cur].kind

C14_KeysInv ==
    /\ DOMAIN models = DOMAIN predictions
    /\ DOMAIN models \subseteq DOMAIN stock_data
    /\ DOMAIN technical_indicators \subseteq DOMAIN stock_data

C14_Step ==
    /\ (models' # models \/ predictions' # predictions) =>
           (phase = "Forecasting" /\ phase' = "Done")
    /\ phase' = "Failed" => (models' = models /\ predictions' = predictions)

\* C14: in every reachable state the symbols with a model are the symbols
\* with predictions, both are among the symbols of stock_data, and so are
\* the symbols of technical_indicators; models and predictions change only
\* on the step that completes a call, so a failed call leaves them as they
\* were before it.
C14_KeySetsConsistent == [](C14_KeysInv) /\ [][C14_Step]_vars

C14_Witness ==
    /\ phase = "Failed"
    /\ fault = "IndexError"
    /\ cur \in DOMAIN models
    /\ cur \in DOMAIN technical_indicators

====
